---- MODULE Spec2Model ----
(***************************************************************************)
(* Model of the physics core of RelativeTrajectoryVisualization:           *)
(*   PhysicsBody / PhysicsWorld  (physics.h, latest revision)              *)
(*   applyGravitationalForces and the main loop with its trajectory        *)
(*   predictor (main.cpp),                                                 *)
(*   the registry of drawables of Camera (graphics.h),                     *)
(*   the coordinate frames Frame2D.                                        *)
(* Specifications: Spec (the operations of PhysicsWorld in any order),     *)
(* SpecMain (main's loop), SpecCamera (the registry), SpecFrame (frames).  *)
(*                                                                         *)
(* Numbers.  A C++ float is modelled as an exact rational <<n, d>> in      *)
(* lowest terms with d > 0, or as the single value NaN == <<0, 0>> that    *)
(* stands for every non-finite float (inf, -inf, nan).  NaN is absorbing.  *)
(* A result whose numerator or denominator exceeds FloatMax is out of the   *)
(* range of the model's floats and becomes NaN, as a float overflows to     *)
(* inf.  The only rounded operation is the square root: the radicand is     *)
(* cut to a multiple of 1/SqrtPrec^2 and its root to a multiple of          *)
(* 1/SqrtPrec, so magnitudes below 1/SqrtPrec underflow to 0, as tiny       *)
(* floats do.                                                               *)
(*                                                                         *)
(* Storage.  Every PhysicsBody object lives at an address of `heap`.       *)
(* A std::vector<PhysicsBody> is the sequence of the addresses of its      *)
(* elements, so that sharing of storage between two worlds, and the        *)
(* identity comparison of removeBody, can be expressed.                    *)
(***************************************************************************)
EXTENDS Integers, Sequences, FiniteSets, TLC

VARIABLES heap, world, world_copy, copy_alive, points, pc, iter, last, updates,
          drawables, depth, pool, drawn, gop, frames, probe

phys == <<heap, world, world_copy, copy_alive, points, pc, iter, last, updates>>

gfx == <<drawables, depth, pool, drawn, gop, frames, probe>>

vars == <<phys, gfx>>

(***************************************************************************)
(* Bounds of the model.                                                    *)
(***************************************************************************)
MaxBodies == 3
MaxOps == 4
MaxTicks == 2
Horizon == 2
SqrtPrec == 1
FloatMax == 30000
MaxDrawables == 3
MaxFrames == 3

(***************************************************************************)
(* float arithmetic                                                        *)
(***************************************************************************)
NaN == <<0, 0>>

IsFinite(a) == a[2] # 0

Abs(n) == IF n < 0 THEN -n ELSE n

RECURSIVE GCD(_, _)
GCD(a, b) == IF b = 0 THEN a ELSE GCD(b, a % b)

InRange(q) == IF Abs(q[1]) > FloatMax \/ q[2] > FloatMax THEN NaN ELSE q

Reduce(n, d, g) == InRange(<<n \div g, d \div g>>)

Norm(n, d) ==
    IF d = 0 THEN NaN
    ELSE IF d < 0 THEN Reduce(-n, -d, GCD(Abs(n), Abs(d)))
    ELSE Reduce(n, d, GCD(Abs(n), Abs(d)))

Int2F(k) == <<k, 1>>

Zero == Int2F(0)

FAddG(a, b, g) ==
    Norm(a[1] * (b[2] \div g) + b[1] * (a[2] \div g), (a[2] \div g) * b[2])

FAdd(a, b) ==
    IF IsFinite(a) /\ IsFinite(b) THEN FAddG(a, b, GCD(a[2], b[2])) ELSE NaN

FNeg(a) == IF IsFinite(a) THEN <<-a[1], a[2]>> ELSE NaN

FSub(a, b) == FAdd(a, FNeg(b))

FMulG(a, b, g1, g2) ==
    Norm((a[1] \div g1) * (b[1] \div g2), (a[2] \div g2) * (b[2] \div g1))

FMul(a, b) ==
    IF IsFinite(a) /\ IsFinite(b)
    THEN FMulG(a, b, GCD(Abs(a[1]), b[2]), GCD(Abs(b[1]), a[2]))
    ELSE NaN

FDiv(a, b) ==
    IF IsFinite(a) /\ IsFinite(b)
    THEN IF b[1] = 0 THEN NaN
         ELSE FMul(a, IF b[1] < 0 THEN <<-b[2], -b[1]>> ELSE <<b[2], b[1]>>)
    ELSE NaN

FLess(a, b) == IsFinite(a) /\ IsFinite(b) /\ a[1] * b[2] < b[1] * a[2]

RECURSIVE ISqrtIn(_, _, _)
ISqrtIn(n, lo, hi) ==
    IF lo >= hi THEN lo
    ELSE LET mid == (lo + hi + 1) \div 2
         IN  IF mid * mid <= n THEN ISqrtIn(n, mid, hi)
                               ELSE ISqrtIn(n, lo, mid - 1)

RECURSIVE SqrtHi(_, _)
SqrtHi(n, h) == IF h * h > n THEN h ELSE SqrtHi(n, 2 * h)

ISqrt(n) == ISqrtIn(n, 0, SqrtHi(n, 1))

FSqrt(a) ==
    IF IsFinite(a) /\ a[1] >= 0
    THEN Norm(ISqrt((a[1] * SqrtPrec * SqrtPrec) \div a[2]), SqrtPrec)
    ELSE NaN

(***************************************************************************)
(* Vector2D                                                                *)
(***************************************************************************)
Vector2D(x, y) == <<x, y>>

Vector2D_zero == Vector2D(Zero, Zero)

VAdd(u, v) == <<FAdd(u[1], v[1]), FAdd(u[2], v[2])>>

VSub(u, v) == <<FSub(u[1], v[1]), FSub(u[2], v[2])>>

VNeg(u) == <<FNeg(u[1]), FNeg(u[2])>>

VMul(u, s) == <<FMul(u[1], s), FMul(u[2], s)>>

VDiv(u, s) == <<FDiv(u[1], s), FDiv(u[2], s)>>

magnitude(u) == FSqrt(FAdd(FMul(u[1], u[1]), FMul(u[2], u[2])))

normalized(u) == VDiv(u, magnitude(u))

VFinite(u) == IsFinite(u[1]) /\ IsFinite(u[2])

(***************************************************************************)
(* PhysicsBody                                                             *)
(***************************************************************************)
\* The member `acceleration` is not assigned by the three-argument
\* constructor; it keeps the value of Vector2D's default constructor.
Vector2D_default == Vector2D_zero

PhysicsBody_default ==
    [position |-> Vector2D_zero, velocity |-> Vector2D_zero,
     acceleration |-> Vector2D_zero, mass |-> Int2F(1)]

PhysicsBody(position, velocity, mass) ==
    [position |-> position, velocity |-> velocity,
     acceleration |-> Vector2D_default, mass |-> mass]

\* Explicit Euler: the position is advanced with the old velocity.
Body_update_explicit(b, dt) ==
    [b EXCEPT !.velocity = VAdd(b.velocity, VMul(b.acceleration, dt)),
              !.position = VAdd(b.position, VMul(b.velocity, dt)),
              !.acceleration = Vector2D_zero]

Body_update(b, dt) ==
    LET v == VAdd(b.velocity, VMul(b.acceleration, dt))
        p == VAdd(b.position, VMul(v, dt))
    IN  [b EXCEPT !.velocity = v, !.position = p,
                  !.acceleration = Vector2D_zero]

\* The force is accumulated without the division by the mass.
applyForce_noMass(b, force) ==
    [b EXCEPT !.acceleration = VAdd(b.acceleration, force)]

applyForce(b, force) ==
    [b EXCEPT !.acceleration = VAdd(b.acceleration, VDiv(force, b.mass))]

\* `acceleration += acceleration` names the parameter on both sides: the
\* by-value parameter is doubled and dropped, the member is not written.
applyAcceleration(b, acceleration) ==
    LET param == VAdd(acceleration, acceleration)
    IN  b

setMass(b, mass) == [b EXCEPT !.mass = mass]

setVelocity(b, velocity) == [b EXCEPT !.velocity = velocity]

setPosition(b, position) == [b EXCEPT !.position = position]

getTotalForce(b) == VMul(b.acceleration, b.mass)

\* The accumulated acceleration is copied as well.
Body_clone_whole(b) ==
    [PhysicsBody(b.position, b.velocity, b.mass)
        EXCEPT !.acceleration = b.acceleration]

\* The constructor arguments position and velocity are swapped.
Body_clone_swapped(b) == PhysicsBody(b.velocity, b.position, b.mass)

Body_clone(b) == PhysicsBody(b.position, b.velocity, b.mass)

(***************************************************************************)
(* Storage                                                                 *)
(***************************************************************************)
\* The address of a newly created object: distinct from every live one.
NewAddr(h) ==
    CHOOSE a \in 1..(Cardinality(DOMAIN h) + 1) :
        /\ a \notin DOMAIN h
        /\ \A c \in 1..(a - 1) : c \in DOMAIN h

Store(h, a, b) == [x \in (DOMAIN h) \cup {a} |-> IF x = a THEN b ELSE h[x]]

Release(h, as) == [x \in (DOMAIN h) \ as |-> h[x]]

Range(q) == {q[k] : k \in 1..Len(q)}

(***************************************************************************)
(* PhysicsWorld.  Operations take the storage h and the world w and return *)
(* both: [h |-> storage, w |-> world].                                     *)
(***************************************************************************)
PhysicsWorld == [ticks |-> 0, bodies |-> <<>>]

\* push_back copy-constructs the new element from the by-value parameter.
addBody(h, w, body) ==
    LET a == NewAddr(h)
    IN  [h |-> Store(h, a, body),
         w |-> [w EXCEPT !.bodies = Append(@, a)]]

\* vector::erase of element i (1-based): the later elements are moved one
\* slot down and the last slot is destroyed.
erase(h, w, i) ==
    LET n == Len(w.bodies)
        moved == [x \in DOMAIN h |->
                    IF \E k \in i..(n - 1) : w.bodies[k] = x
                    THEN h[w.bodies[(CHOOSE k \in i..(n - 1) :
                                        w.bodies[k] = x) + 1]]
                    ELSE h[x]]
    IN  [h |-> Release(moved, {w.bodies[n]}),
         w |-> [w EXCEPT !.bodies = SubSeq(@, 1, n - 1)]]

\* When no element matches, the last element is erased.
removeBody_last(h, w, body) ==
    LET hits == {i \in 1..Len(w.bodies) : w.bodies[i] = body}
    IN  IF hits = {}
        THEN IF Len(w.bodies) = 0 THEN [h |-> h, w |-> w]
             ELSE erase(h, w, Len(w.bodies))
        ELSE erase(h, w, CHOOSE i \in hits : \A k \in hits : i <= k)

\* `body` is the address of the by-value parameter of removeBody.
removeBody(h, w, body) ==
    LET hits == {i \in 1..Len(w.bodies) : w.bodies[i] = body}
    IN  IF hits = {} THEN [h |-> h, w |-> w]
        ELSE erase(h, w, CHOOSE i \in hits : \A k \in hits : i <= k)

\* update without ++ticks.
World_update_noTick(h, w, dt) ==
    [h |-> [x \in DOMAIN h |->
              IF x \in Range(w.bodies) THEN Body_update(h[x], dt) ELSE h[x]],
     w |-> w]

World_update(h, w, dt) ==
    [h |-> [x \in DOMAIN h |->
              IF x \in Range(w.bodies) THEN Body_update(h[x], dt) ELSE h[x]],
     w |-> [w EXCEPT !.ticks = @ + 1]]

RECURSIVE CloneLoop(_, _, _, _)
CloneLoop(r, h0, w, i) ==
    IF i > Len(w.bodies) THEN r
    ELSE CloneLoop(addBody(r.h, r.w, Body_clone(h0[w.bodies[i]])), h0, w, i + 1)

\* A copy that shares the body storage of its source.
World_clone_shared(h, w) ==
    [h |-> h, w |-> [PhysicsWorld EXCEPT !.ticks = w.ticks,
                                         !.bodies = w.bodies]]

World_clone(h, w) ==
    CloneLoop([h |-> h, w |-> [PhysicsWorld EXCEPT !.ticks = w.ticks]], h, w, 1)

(***************************************************************************)
(* applyGravitationalForces                                                *)
(***************************************************************************)
\* The inner loop starts at j = i.
InnerStart_self(i) == i

\* First value of the inner loop variable j for a given i.
InnerStart(i) == i + 1

\* The (i, j) index pairs (0-based, as in the code) for which the body of
\* the nested loops runs, in execution order, for a vector of n bodies.
RECURSIVE PairLoop(_, _, _)
PairLoop(n, i, j) ==
    IF i >= n THEN <<>>
    ELSE IF j >= n THEN PairLoop(n, i + 1, InnerStart(i + 1))
    ELSE <<<<i, j>>>> \o PairLoop(n, i, j + 1)

\* The force computed in the loop body from body1 and body2.
forceMagnitude(strength, distanceMagnitude) ==
    FDiv(strength, FMul(distanceMagnitude, distanceMagnitude))

forceAlong(strength, distance) ==
    VMul(normalized(distance), forceMagnitude(strength, magnitude(distance)))

PairForce(strength, body1, body2) ==
    forceAlong(strength, VSub(body2.position, body1.position))

\* The force and its negation, as passed to the two applyForce calls.
Opposed(f) == <<f, VNeg(f)>>

Twice(f) == <<f, f>>

\* The same force is applied to both bodies.
PairForces_same(strength, body1, body2) ==
    Twice(PairForce(strength, body1, body2))

\* The two applyForce arguments of the loop body: <<to body1, to body2>>.
PairForces(strength, body1, body2) ==
    Opposed(PairForce(strength, body1, body2))

\* One run of the loop body on the pair (i, j).  r.h is the storage, r.log
\* the record of the applyForce calls made so far in this application.
PairLogged(r, i, j, a1, a2, f, h2) ==
    [h |-> h2,
     log |-> Append(r.log,
               [i |-> i, j |-> j, force1 |-> f[1], force2 |-> f[2],
                body1 |-> r.h[a1], body2 |-> r.h[a2],
                after1 |-> h2[a1], after2 |-> h2[a2]])]

PairApplied(r, i, j, a1, a2, f) ==
    PairLogged(r, i, j, a1, a2, f,
               [[r.h EXCEPT ![a1] = applyForce(@, f[1])]
                    EXCEPT ![a2] = applyForce(@, f[2])])

PairOn(strength, r, i, j, a1, a2) ==
    PairApplied(r, i, j, a1, a2, PairForces(strength, r.h[a1], r.h[a2]))

PairStep(strength, r, w, i, j) ==
    PairOn(strength, r, i, j, w.bodies[i + 1], w.bodies[j + 1])

RECURSIVE GravFold(_, _, _, _, _)
GravFold(strength, r, w, pairs, k) ==
    IF k > Len(pairs) THEN r
    ELSE GravFold(strength,
                  PairStep(strength, r, w, pairs[k][1], pairs[k][2]),
                  w, pairs, k + 1)

applyGravitationalForces(strength, h, w) ==
    GravFold(strength, [h |-> h, log |-> <<>>], w,
             PairLoop(Len(w.bodies), 0, InnerStart(0)), 1)

(***************************************************************************)
(* Inputs of the operations                                                *)
(***************************************************************************)
V(x, y) == Vector2D(Int2F(x), Int2F(y))

BodyInputs ==
    {PhysicsBody_default,
     PhysicsBody(V(0, 2), V(1, 0), Int2F(2)),
     PhysicsBody(V(3, 4), V(0, -1), Int2F(1)),
     PhysicsBody(V(2, 0), V(0, 0), Int2F(-1))}

\* A body object that is not an element of any world.
AbsentInputs == {PhysicsBody(V(5, 5), V(0, 0), Int2F(1))}

PositionInputs == {V(0, 2)}

VelocityInputs == {V(-1, 2)}

MassInputs == {Int2F(3), Int2F(0)}

ForceInputs == {V(2, -4)}

AccelerationInputs == {V(1, 1)}

DtInputs == {<<1, 2>>, Int2F(2)}

StrengthInputs == {Int2F(4)}

Worlds == {"world", "world_copy"}

(***************************************************************************)
(* State                                                                   *)
(*   heap        the PhysicsBody objects, by address                       *)
(*   world       main's `world`                                            *)
(*   world_copy  main's `world_copy` (the result of world.clone())         *)
(*   copy_alive  whether world_copy exists                                 *)
(*   points      TrajectoryDrawable::points of trajectoryDrawable1         *)
(*   pc, iter    position in main's loop and the predictor's loop counter  *)
(*   last        the operation that led to this state, with its arguments  *)
(*   updates     number of update calls made on each world object, and the *)
(*               tick the copy was given when it was made                  *)
(*   drawables   Camera::drawables, the registry: a sequence of Drawable*  *)
(*   depth       Drawable::depth of every Drawable object that exists      *)
(*   pool        the drawables passed to addDrawable and not since passed  *)
(*               to removeDrawable                                         *)
(*   drawn       the drawables drawn by render(), in draw order, when      *)
(*               render() was the last operation                           *)
(*   gop         the last operation on the registry; direct: whether       *)
(*               addDrawable or removeDrawable was ever called other than  *)
(*               by a constructor or destructor                            *)
(*   frames      the Frame2D objects, by address (0 is the null pointer)   *)
(*   probe       the last coordinate conversion and its results            *)
(***************************************************************************)
\* The observable value of world w: its tick and its bodies, in order.
WorldState(h, w) ==
    [ticks |-> w.ticks, bodies |-> [k \in 1..Len(w.bodies) |-> h[w.bodies[k]]]]

\* last.before is the value of the world last.w before the operation.
NoOp == [n |-> 0, op |-> "init", w |-> "world", i |-> 0,
         v |-> Vector2D_zero, s |-> Zero, log |-> <<>>,
         before |-> [ticks |-> 0, bodies |-> <<>>]]

Get(W) == IF W = "world" THEN world ELSE world_copy

Exists(W) == W = "world" \/ copy_alive

\* The effect r = [h, w] of an operation on world W, recorded as `op`.
Effect(W, r, op, i, v, s, log) ==
    /\ heap' = r.h
    /\ world' = IF W = "world" THEN r.w ELSE world
    /\ world_copy' = IF W = "world_copy" THEN r.w ELSE world_copy
    /\ last' = [n |-> last.n + 1, op |-> op, w |-> W, i |-> i,
                v |-> v, s |-> s, log |-> log,
                before |-> WorldState(heap, Get(W))]

OnBody(W, k, b) == [h |-> [heap EXCEPT ![Get(W).bodies[k]] = b], w |-> Get(W)]

Elem(W, k) == heap[Get(W).bodies[k]]

TypeOK ==
    /\ world.ticks \in Nat
    /\ world_copy.ticks \in Nat
    /\ copy_alive \in BOOLEAN
    /\ Range(world.bodies) \cup Range(world_copy.bodies) \subseteq DOMAIN heap
    /\ iter \in 0..Horizon
    /\ last.n \in Nat

(***************************************************************************)
(* The operations of PhysicsWorld and PhysicsBody, called in any order     *)
(***************************************************************************)
\* No Drawable, no Frame2D object exists.
GfxInit ==
    /\ drawables = <<>>
    /\ depth = <<>>
    /\ pool = {}
    /\ drawn = <<>>
    /\ gop = [op |-> "init", direct |-> FALSE]
    /\ frames = <<>>
    /\ probe = [frame |-> 0, point |-> Vector2D_zero,
                global |-> Vector2D_zero, local |-> Vector2D_zero]

\* An empty world, no copy.
PhysInit ==
    /\ heap = <<>>
    /\ world = PhysicsWorld
    /\ world_copy = PhysicsWorld
    /\ copy_alive = FALSE
    /\ points = <<>>
    /\ pc = "api"
    /\ iter = 0
    /\ last = NoOp
    /\ updates = [world |-> 0, world_copy |-> 0, base |-> 0]

Init == PhysInit /\ GfxInit

ApiGuard(W) == pc = "api" /\ last.n < MaxOps /\ Exists(W)

AddBody(W, body) ==
    /\ ApiGuard(W)
    /\ Len(Get(W).bodies) < MaxBodies
    /\ Effect(W, addBody(heap, Get(W), body), "addBody",
              Len(Get(W).bodies) + 1, body.position, body.mass, <<>>)
    /\ UNCHANGED <<copy_alive, points, pc, iter, updates>>
    /\ UNCHANGED gfx

\* removeBody(W.bodies[k]): the argument is copied into the parameter,
\* a new object.
RemoveBody(W, k) ==
    /\ ApiGuard(W)
    /\ k \in 1..Len(Get(W).bodies)
    /\ LET param == NewAddr(heap)
           r == removeBody(Store(heap, param, Elem(W, k)), Get(W), param)
       IN  Effect(W, [h |-> Release(r.h, {param}), w |-> r.w], "removeBody",
                  k, Elem(W, k).position, Elem(W, k).mass, <<>>)
    /\ UNCHANGED <<copy_alive, points, pc, iter, updates>>
    /\ UNCHANGED gfx

\* removeBody(body) with a body object that is not an element of W.bodies.
RemoveAbsent(W, body) ==
    /\ ApiGuard(W)
    /\ LET param == NewAddr(heap)
           r == removeBody(Store(heap, param, body), Get(W), param)
       IN  Effect(W, [h |-> Release(r.h, {param}), w |-> r.w], "removeAbsent",
                  0, body.position, body.mass, <<>>)
    /\ UNCHANGED <<copy_alive, points, pc, iter, updates>>
    /\ UNCHANGED gfx

SetPosition(W, k, position) ==
    /\ ApiGuard(W)
    /\ k \in 1..Len(Get(W).bodies)
    /\ Effect(W, OnBody(W, k, setPosition(Elem(W, k), position)),
              "setPosition", k, position, Zero, <<>>)
    /\ UNCHANGED <<copy_alive, points, pc, iter, updates>>
    /\ UNCHANGED gfx

SetVelocity(W, k, velocity) ==
    /\ ApiGuard(W)
    /\ k \in 1..Len(Get(W).bodies)
    /\ Effect(W, OnBody(W, k, setVelocity(Elem(W, k), velocity)),
              "setVelocity", k, velocity, Zero, <<>>)
    /\ UNCHANGED <<copy_alive, points, pc, iter, updates>>
    /\ UNCHANGED gfx

SetMass(W, k, mass) ==
    /\ ApiGuard(W)
    /\ k \in 1..Len(Get(W).bodies)
    /\ Effect(W, OnBody(W, k, setMass(Elem(W, k), mass)),
              "setMass", k, Vector2D_zero, mass, <<>>)
    /\ UNCHANGED <<copy_alive, points, pc, iter, updates>>
    /\ UNCHANGED gfx

ApplyForce(W, k, force) ==
    /\ ApiGuard(W)
    /\ k \in 1..Len(Get(W).bodies)
    /\ Effect(W, OnBody(W, k, applyForce(Elem(W, k), force)),
              "applyForce", k, force, Zero, <<>>)
    /\ UNCHANGED <<copy_alive, points, pc, iter, updates>>
    /\ UNCHANGED gfx

ApplyAcceleration(W, k, acceleration) ==
    /\ ApiGuard(W)
    /\ k \in 1..Len(Get(W).bodies)
    /\ Effect(W, OnBody(W, k, applyAcceleration(Elem(W, k), acceleration)),
              "applyAcceleration", k, acceleration, Zero, <<>>)
    /\ UNCHANGED <<copy_alive, points, pc, iter, updates>>
    /\ UNCHANGED gfx

Update(W, dt) ==
    /\ ApiGuard(W)
    /\ Effect(W, World_update(heap, Get(W), dt), "update",
              0, Vector2D_zero, dt, <<>>)
    /\ updates' = [updates EXCEPT ![W] = @ + 1]
    /\ UNCHANGED <<copy_alive, points, pc, iter>>
    /\ UNCHANGED gfx

Gravity(W, strength) ==
    /\ ApiGuard(W)
    /\ LET r == applyGravitationalForces(strength, heap, Get(W))
       IN  Effect(W, [h |-> r.h, w |-> Get(W)], "applyGravitationalForces",
                  0, Vector2D_zero, strength, r.log)
    /\ UNCHANGED <<copy_alive, points, pc, iter, updates>>
    /\ UNCHANGED gfx

\* world_copy = world.clone()
Clone ==
    /\ ApiGuard("world")
    /\ ~copy_alive
    /\ LET r == World_clone(heap, world)
       IN  /\ heap' = r.h
           /\ world_copy' = r.w
    /\ copy_alive' = TRUE
    /\ last' = [NoOp EXCEPT !.n = last.n + 1, !.op = "clone",
                            !.before = WorldState(heap, world)]
    /\ updates' = [updates EXCEPT !.world_copy = 0, !.base = world.ticks]
    /\ UNCHANGED <<world, points, pc, iter>>
    /\ UNCHANGED gfx

Next ==
    \/ \E W \in Worlds, body \in BodyInputs : AddBody(W, body)
    \/ \E W \in Worlds, k \in 1..MaxBodies : RemoveBody(W, k)
    \/ \E W \in Worlds, body \in AbsentInputs : RemoveAbsent(W, body)
    \/ \E W \in Worlds, k \in 1..MaxBodies, p \in PositionInputs :
            SetPosition(W, k, p)
    \/ \E W \in Worlds, k \in 1..MaxBodies, v \in VelocityInputs :
            SetVelocity(W, k, v)
    \/ \E W \in Worlds, k \in 1..MaxBodies, m \in MassInputs :
            SetMass(W, k, m)
    \/ \E W \in Worlds, k \in 1..MaxBodies, f \in ForceInputs :
            ApplyForce(W, k, f)
    \/ \E W \in Worlds, k \in 1..MaxBodies, a \in AccelerationInputs :
            ApplyAcceleration(W, k, a)
    \/ \E W \in Worlds, dt \in DtInputs : Update(W, dt)
    \/ \E W \in Worlds, g \in StrengthInputs : Gravity(W, g)
    \/ Clone

Spec == Init /\ [][Next]_vars

(***************************************************************************)
(* main: initWorld and the main loop.                                      *)
(* Lengths are measured in units of LengthUnit pixels and forces in units  *)
(* of ForceUnit, so that the numbers of a few ticks stay small; HORIZON    *)
(* predictor steps are cut to Horizon.                                     *)
(***************************************************************************)
GRAVITATIONAL_CONSTANT == 66700000
SAMPLING_DISTANCE == 20
HORIZON == 100

ForceUnit == 16675 * 1000
LengthUnit == 4 * 5

Strength == Int2F(GRAVITATIONAL_CONSTANT \div ForceUnit)
SamplingDistance == Int2F(SAMPLING_DISTANCE \div LengthUnit)

\* The two bodies initWorld adds: the heavy one first, the light one second.
InitWorldInputs ==
    {<<PhysicsBody(V(0, 0), V(0, 0), Int2F(2)),
       PhysicsBody(V(0, 1), V(1, 0), Int2F(1))>>,
     <<PhysicsBody(V(0, 2), V(1, 0), Int2F(2)),
       PhysicsBody(V(0, 0), V(-2, 0), Int2F(1))>>,
     <<PhysicsBody(V(1, 1), V(0, 1), Int2F(3)),
       PhysicsBody(V(1, -1), V(0, -1), Int2F(1))>>,
     <<PhysicsBody(V(0, 0), V(1, 0), Int2F(2)),
       PhysicsBody(V(0, 2), V(0, 0), Int2F(1))>>,
     <<PhysicsBody(V(0, 0), V(1, 0), Int2F(2)),
       PhysicsBody(V(2, 0), V(-1, 0), Int2F(1))>>}

\* deltaTime = (currentTime - lastTime) / 1000.0f
DeltaTimeInputs == {Zero, <<1, 2>>, Int2F(1)}

initWorld(h, w, cfg) ==
    LET r == addBody(h, w, cfg[1])
    IN  addBody(r.h, r.w, cfg[2])

InitMain ==
    /\ \E cfg \in InitWorldInputs :
         LET r == initWorld(<<>>, PhysicsWorld, cfg)
         IN  heap = r.h /\ world = r.w
    /\ world_copy = PhysicsWorld
    /\ copy_alive = FALSE
    /\ points = <<>>
    /\ pc = "update"
    /\ iter = 0
    /\ last = NoOp
    /\ updates = [world |-> 0, world_copy |-> 0, base |-> 0]
    /\ GfxInit

\* world.update(deltaTime)
MainUpdate(deltaTime) ==
    /\ pc = "update"
    /\ world.ticks < MaxTicks
    /\ Effect("world", World_update(heap, world, deltaTime), "update",
              0, Vector2D_zero, deltaTime, <<>>)
    /\ updates' = [updates EXCEPT !.world = @ + 1]
    /\ pc' = "gravity"
    /\ UNCHANGED <<copy_alive, points, iter>>
    /\ UNCHANGED gfx

\* applyGravitationalForces(GRAVITATIONAL_CONSTANT, world)
MainGravity ==
    /\ pc = "gravity"
    /\ LET r == applyGravitationalForces(Strength, heap, world)
       IN  Effect("world", [h |-> r.h, w |-> world],
                  "applyGravitationalForces", 0, Vector2D_zero, Strength,
                  r.log)
    /\ pc' = "clone"
    /\ UNCHANGED <<copy_alive, points, iter, updates>>
    /\ UNCHANGED gfx

\* TrajectoryDrawable::addPoint
addPoint(pts, point) == Append(pts, point)

\* The points of the previous run are kept.
clear_keep(pts) == pts

\* TrajectoryDrawable::clear
clear(pts) == <<>>

\* trajectoryDrawable1.clear(); PhysicsWorld world_copy = world.clone();
\* int i = 0
MainClone ==
    /\ pc = "clone"
    /\ LET r == World_clone(heap, world)
       IN  /\ heap' = r.h
           /\ world_copy' = r.w
    /\ copy_alive' = TRUE
    /\ points' = clear(points)
    /\ iter' = 0
    /\ pc' = "predict"
    /\ last' = [NoOp EXCEPT !.n = last.n + 1, !.op = "clone",
                            !.before = WorldState(heap, world)]
    /\ updates' = [updates EXCEPT !.world_copy = 0, !.base = world.ticks]
    /\ UNCHANGED world
    /\ UNCHANGED gfx

\* The step size of one predictor iteration.
PredictorDt(h, w) ==
    FDiv(SamplingDistance, magnitude(h[w.bodies[2]].velocity))

\* One iteration of the predictor loop.
MainPredict ==
    /\ pc = "predict"
    /\ iter < Horizon
    /\ LET dt == PredictorDt(heap, world_copy)
           u  == World_update(heap, world_copy, dt)
           g  == applyGravitationalForces(Strength, u.h, u.w)
       IN  /\ Effect("world_copy", [h |-> g.h, w |-> u.w], "predict",
                     iter, Vector2D_zero, dt, g.log)
           /\ points' = addPoint(points, g.h[u.w.bodies[2]].position)
    /\ iter' = iter + 1
    /\ updates' = [updates EXCEPT !.world_copy = @ + 1]
    /\ UNCHANGED <<copy_alive, pc>>
    /\ UNCHANGED gfx

\* The loop of the predictor is left; camera.render(); world_copy goes out
\* of scope; `running` decides whether the loop is entered again.
MainRender(running) ==
    /\ pc = "predict"
    /\ iter = Horizon
    /\ heap' = Release(heap, Range(world_copy.bodies))
    /\ world_copy' = PhysicsWorld
    /\ copy_alive' = FALSE
    /\ pc' = IF running THEN "update" ELSE "done"
    /\ last' = [NoOp EXCEPT !.n = last.n + 1, !.op = "render",
                            !.before = WorldState(heap, world)]
    /\ UNCHANGED <<world, points, iter, updates>>
    /\ UNCHANGED gfx

NextMain ==
    \/ \E deltaTime \in DeltaTimeInputs : MainUpdate(deltaTime)
    \/ MainGravity
    \/ MainClone
    \/ MainPredict
    \/ \E running \in BOOLEAN : MainRender(running)

SpecMain == InitMain /\ [][NextMain]_vars

(***************************************************************************)
(* Camera: the registry of drawables (graphics.h).  A Drawable* is the     *)
(* address of a Drawable object; `depth` maps the objects that exist to    *)
(* their depth member.                                                     *)
(***************************************************************************)
\* The depth a derived constructor assigns (BodyDrawable 1, GridDrawable
\* 10), or the member's default 0 when it assigns none.
DepthInputs == {0, 1, 10}

\* drawables.insert(drawables.begin() + i, drawable), i 0-based
insert(ds, i, drawable) ==
    SubSeq(ds, 1, i) \o <<drawable>> \o SubSeq(ds, i + 1, Len(ds))

\* if (drawables.size() == 0) drawables.push_back(drawable)
pushIfEmpty(ds, drawable) == IF Len(ds) = 0 THEN Append(ds, drawable) ELSE ds

\* The for loop of addDrawable: insert before the first element of greater
\* depth and return; when there is none the loop ends without inserting.
insertLoop(ds, dep, drawable, deeper) ==
    IF deeper = {} THEN ds
    ELSE insert(ds, CHOOSE i \in deeper : \A k \in deeper : i <= k, drawable)

addDrawableLoop(ds, dep, drawable) ==
    insertLoop(ds, dep, drawable,
               {i \in 0..(Len(ds) - 1) : dep[ds[i + 1]] > dep[drawable]})

addDrawable(ds, dep, drawable) ==
    addDrawableLoop(pushIfEmpty(ds, drawable), dep, drawable)

eraseAt(ds, i) == SubSeq(ds, 1, i) \o SubSeq(ds, i + 2, Len(ds))

removeLoop(ds, hits) ==
    IF hits = {} THEN ds
    ELSE eraseAt(ds, CHOOSE i \in hits : \A k \in hits : i <= k)

removeDrawable(ds, drawable) ==
    removeLoop(ds, {i \in 0..(Len(ds) - 1) : ds[i + 1] = drawable})

\* A derived class is constructed: Drawable::Drawable() registers the object
\* while depth still has its default member initializer 0, then the body of
\* the derived constructor assigns depth.
Construct(v) ==
    /\ Cardinality(DOMAIN depth) < MaxDrawables
    /\ LET this == NewAddr(depth)
       IN  /\ drawables' = addDrawable(drawables, Store(depth, this, 0), this)
           /\ depth' = Store(depth, this, v)
           /\ pool' = pool \cup {this}
           /\ gop' = [gop EXCEPT !.op = "construct"]
    /\ drawn' = <<>>
    /\ UNCHANGED <<frames, probe>>
    /\ UNCHANGED phys

\* Drawable::~Drawable()
Destroy(this) ==
    /\ this \in DOMAIN depth
    /\ drawables' = removeDrawable(drawables, this)
    /\ depth' = Release(depth, {this})
    /\ pool' = pool \ {this}
    /\ gop' = [gop EXCEPT !.op = "destroy"]
    /\ drawn' = <<>>
    /\ UNCHANGED <<frames, probe>>
    /\ UNCHANGED phys

\* Camera::addDrawable(drawable) called by the program for an object it has
\* taken out of the registry before.
AddDrawable(drawable) ==
    /\ drawable \in DOMAIN depth
    /\ drawable \notin pool
    /\ drawables' = addDrawable(drawables, depth, drawable)
    /\ pool' = pool \cup {drawable}
    /\ gop' = [op |-> "addDrawable", direct |-> TRUE]
    /\ drawn' = <<>>
    /\ UNCHANGED <<depth, frames, probe>>
    /\ UNCHANGED phys

\* Camera::removeDrawable(drawable) called by the program.
RemoveDrawable(drawable) ==
    /\ drawable \in DOMAIN depth
    /\ drawables' = removeDrawable(drawables, drawable)
    /\ pool' = pool \ {drawable}
    /\ gop' = [op |-> "removeDrawable", direct |-> TRUE]
    /\ drawn' = <<>>
    /\ UNCHANGED <<depth, frames, probe>>
    /\ UNCHANGED phys

\* Camera::render(): drawables[i]->draw(this) for i = 0, 1, ...
Render ==
    /\ drawn' = drawables
    /\ gop' = [gop EXCEPT !.op = "render"]
    /\ UNCHANGED <<drawables, depth, pool, frames, probe>>
    /\ UNCHANGED phys

NextCamera ==
    \/ \E v \in DepthInputs : Construct(v)
    \/ \E d \in 1..MaxDrawables : Destroy(d)
    \/ \E d \in 1..MaxDrawables : AddDrawable(d)
    \/ \E d \in 1..MaxDrawables : RemoveDrawable(d)
    \/ Render

SpecCamera == Init /\ [][NextCamera]_vars

(***************************************************************************)
(* Frame2D.  Frame2D.h is not among the source files; the frame is the     *)
(* one of the specification (sections 3 and 4.4): a parent (0 for none), a *)
(* position, a rotation and a scale.  A rotation angle is represented by   *)
(* its cosine and sine, <<cos, sin>>, both exact numbers.                  *)
(***************************************************************************)
Frame2D(parent, position, rotation, scale) ==
    [parent |-> parent, position |-> position, rotation |-> rotation,
     scale |-> scale]

\* The angles 90 degrees and atan(4/3).
RotationInputs == {<<Zero, Int2F(1)>>, <<<<3, 5>>, <<4, 5>>>>}

ScaleInputs == {V(2, -1)}

FramePositionInputs == {V(1, 2)}

\* The positions setPosition is called with.
SetPositionInputs == {V(0, -3)}

PointInputs == {V(3, -2), V(0, 1)}

scaled(p, scale) == <<FMul(p[1], scale[1]), FMul(p[2], scale[2])>>

unscaled(p, scale) == <<FDiv(p[1], scale[1]), FDiv(p[2], scale[2])>>

rotated(p, rotation) ==
    <<FSub(FMul(rotation[1], p[1]), FMul(rotation[2], p[2])),
      FAdd(FMul(rotation[2], p[1]), FMul(rotation[1], p[2]))>>

unrotated(p, rotation) == rotated(p, <<rotation[1], FNeg(rotation[2])>>)

\* The frame's own transform: scale, then rotation, then translation.
toParent(f, p) == VAdd(rotated(scaled(p, f.scale), f.rotation), f.position)

\* The inverse scale is applied before the inverse rotation.
fromParent_scaleFirst(f, q) ==
    unrotated(unscaled(VSub(q, f.position), f.scale), f.rotation)

\* The inverse of the frame's own transform: inverse translation, inverse
\* rotation, inverse scale.
fromParent(f, q) ==
    unscaled(unrotated(VSub(q, f.position), f.rotation), f.scale)

\* toGlobal of frame f of the frames fs
RECURSIVE toGlobal(_, _, _)
toGlobal(fs, f, p) ==
    IF fs[f].parent = 0 THEN toParent(fs[f], p)
    ELSE toGlobal(fs, fs[f].parent, toParent(fs[f], p))

\* toLocal of frame f of the frames fs
RECURSIVE getLocalCoordinates(_, _, _)
getLocalCoordinates(fs, f, g) ==
    fromParent(fs[f], IF fs[f].parent = 0 THEN g
                      ELSE getLocalCoordinates(fs, fs[f].parent, g))

NoProbe ==
    [frame |-> 0, point |-> Vector2D_zero, global |-> Vector2D_zero,
     local |-> Vector2D_zero]

\* Frame2D(parent, position, rotation, scale); the parent exists already,
\* so the frames form a tree.
NewFrame(parent, position, rotation, scale) ==
    /\ Len(frames) < MaxFrames
    /\ parent \in 0..Len(frames)
    /\ frames' = Append(frames, Frame2D(parent, position, rotation, scale))
    /\ probe' = NoProbe
    /\ UNCHANGED <<drawables, depth, pool, drawn, gop>>
    /\ UNCHANGED phys

FrameSetPosition(f, position) ==
    /\ f \in 1..Len(frames)
    /\ frames' = [frames EXCEPT ![f].position = position]
    /\ probe' = NoProbe
    /\ UNCHANGED <<drawables, depth, pool, drawn, gop>>
    /\ UNCHANGED phys

FrameSetRotation(f, rotation) ==
    /\ f \in 1..Len(frames)
    /\ frames' = [frames EXCEPT ![f].rotation = rotation]
    /\ probe' = NoProbe
    /\ UNCHANGED <<drawables, depth, pool, drawn, gop>>
    /\ UNCHANGED phys

\* The point p of frame f is converted to global coordinates and the
\* result back to the coordinates of f.
Convert(f, p) ==
    /\ f \in 1..Len(frames)
    /\ probe' = [frame |-> f, point |-> p,
                 global |-> toGlobal(frames, f, p),
                 local |-> getLocalCoordinates(frames, f,
                                               toGlobal(frames, f, p))]
    /\ UNCHANGED <<drawables, depth, pool, drawn, gop, frames>>
    /\ UNCHANGED phys

NextFrame ==
    \/ \E parent \in 0..MaxFrames, position \in FramePositionInputs,
          rotation \in RotationInputs, scale \in ScaleInputs :
            NewFrame(parent, position, rotation, scale)
    \/ \E f \in 1..MaxFrames, position \in SetPositionInputs :
            FrameSetPosition(f, position)
    \/ \E f \in 1..MaxFrames, rotation \in RotationInputs :
            FrameSetRotation(f, rotation)
    \/ \E f \in 1..MaxFrames, p \in PointInputs : Convert(f, p)

SpecFrame == Init /\ [][NextFrame]_vars

(***************************************************************************)
(* Properties                                                              *)
(***************************************************************************)
Live == WorldState(heap, world)

Copy == WorldState(heap, world_copy)

\* The value, after the last operation, of the world it was applied to.
Now == WorldState(heap, Get(last.w))

BodyFinite(b) ==
    VFinite(b.position) /\ VFinite(b.velocity) /\ VFinite(b.acceleration)
        /\ IsFinite(b.mass)

ForceLawRan == last.op \in {"applyGravitationalForces", "predict"}

\* C1: running the predictor (cloning the live world, then every iteration
\* of the predictor loop on the clone) leaves the live world's tick, its
\* bodies' number and order and every live body's position, velocity, mass
\* and accumulated acceleration as they were.
C1_PredictorLeavesWorld ==
    [][last'.op \in {"clone", "predict"} => Live' = Live]_vars

C1_Witness ==
    /\ last.op = "predict"
    /\ iter = Horizon
    /\ Len(points) = Horizon
    /\ \A k \in 1..Len(Copy.bodies) : BodyFinite(Copy.bodies[k])
    /\ \A k \in 1..Len(Copy.bodies) :
          Copy.bodies[k].position # Live.bodies[k].position

Mutators ==
    {"addBody", "removeBody", "removeAbsent", "setPosition", "setVelocity", "setMass",
     "applyForce", "applyAcceleration", "update", "applyGravitationalForces"}

\* C2: after world_copy = world.clone(), no operation performed on
\* world_copy changes the tick or any body of world, and no operation
\* performed on world changes the tick or any body of world_copy.
C2_DeepCopyIsolation ==
    [][/\ (last'.op \in Mutators /\ last'.w = "world_copy") => Live' = Live
       /\ (copy_alive /\ last'.op \in Mutators /\ last'.w = "world")
             => Copy' = Copy]_vars

C2_Witness ==
    /\ copy_alive
    /\ last.op = "update"
    /\ last.w = "world_copy"
    /\ Len(Live.bodies) > 0
    /\ Len(Copy.bodies) = Len(Live.bodies)
    /\ \A k \in 1..Len(Copy.bodies) :
          Copy.bodies[k].position # Live.bodies[k].position

\* C3 as stated: the tick of every world equals the number of update calls
\* made on that world object.
C3_TickIsUpdateCount ==
    /\ world.ticks = updates.world
    /\ copy_alive => world_copy.ticks = updates.world_copy

\* C3 amended: a world made by the constructor starts at tick 0 and a world
\* returned by clone() starts at the tick of its source; from there the tick
\* equals that start plus the number of update calls made on the world;
\* update adds exactly 1 and no other operation changes the tick of an
\* existing world.
C3_TickCount ==
    /\ [](/\ world.ticks = updates.world
          /\ copy_alive => world_copy.ticks = updates.base + updates.world_copy)
    /\ [][/\ world.ticks' = world.ticks
                + (IF last'.op = "update" /\ last'.w = "world" THEN 1 ELSE 0)
          /\ copy_alive => world_copy.ticks' = world_copy.ticks
                + (IF last'.op = "update" /\ last'.w = "world_copy"
                   THEN 1 ELSE 0)
          /\ last'.op = "clone" => world_copy.ticks' = world.ticks]_vars

C3_Witness ==
    /\ copy_alive
    /\ updates.base > 0
    /\ updates.world_copy > 0
    /\ updates.world > updates.base

\* C4: at the end of every tick of the main loop (the step and the force
\* law of the tick are done, the frame is rendered) the accumulated
\* acceleration of every live body is zero.
C4_EndOfTickAccelerationZero ==
    last.op = "render" =>
        \A k \in 1..Len(Live.bodies) :
            Live.bodies[k].acceleration = Vector2D_zero

\* C5: applyAcceleration(accel) leaves the body with its previous
\* accumulated acceleration plus accel.
C5_ApplyAccelerationAdds ==
    last.op = "applyAcceleration" =>
        Now.bodies[last.i].acceleration
            = VAdd(last.before.bodies[last.i].acceleration, last.v)

\* C6: update(dt) is semi-implicit Euler on every body: velocity becomes
\* velocity + acceleration * dt, position becomes position + NEW velocity
\* * dt, the accumulated acceleration becomes zero, mass is kept; with zero
\* accumulated acceleration position' = position + velocity * dt and
\* velocity' = velocity.
C6_SemiImplicitEuler ==
    last.op = "update" =>
        /\ Len(Now.bodies) = Len(last.before.bodies)
        /\ \A k \in 1..Len(Now.bodies) :
             LET b == last.before.bodies[k]
                 c == Now.bodies[k]
             IN  /\ c.velocity = VAdd(b.velocity, VMul(b.acceleration, last.s))
                 /\ c.position = VAdd(b.position, VMul(c.velocity, last.s))
                 /\ c.acceleration = Vector2D_zero
                 /\ c.mass = b.mass
                 /\ b.acceleration = Vector2D_zero =>
                      /\ c.velocity = b.velocity
                      /\ c.position = VAdd(b.position, VMul(b.velocity, last.s))

C6_Witness ==
    /\ last.op = "update"
    /\ \E k \in 1..Len(Now.bodies) :
         LET b == last.before.bodies[k]
         IN  /\ BodyFinite(b)
             /\ b.acceleration[1] # Zero
             /\ b.velocity # Vector2D_zero
             /\ Now.bodies[k].position
                    # VAdd(b.position, VMul(b.velocity, last.s))

\* C7: applyForce(F) adds F / mass to the accumulated acceleration (so
\* that several calls add up) and changes nothing else; applyForce(F) on a
\* body with zero accumulated acceleration followed by update(dt) gives
\* velocity' = velocity + (F / mass) * dt and zero accumulated acceleration.
C7_ApplyForce ==
    /\ [](last.op = "applyForce" =>
            /\ Now.ticks = last.before.ticks
            /\ Len(Now.bodies) = Len(last.before.bodies)
            /\ \A k \in 1..Len(Now.bodies) :
                 LET b == last.before.bodies[k]
                 IN  Now.bodies[k] =
                       IF k = last.i
                       THEN [b EXCEPT !.acceleration =
                               VAdd(b.acceleration, VDiv(last.v, b.mass))]
                       ELSE b)
    /\ [][(/\ last.op = "applyForce"
           /\ last.before.bodies[last.i].acceleration = Vector2D_zero
           /\ last'.op = "update"
           /\ last'.w = last.w)
          => LET b == last.before.bodies[last.i]
                 c == Now'.bodies[last.i]
             IN  /\ c.velocity =
                       VAdd(b.velocity, VMul(VDiv(last.v, b.mass), last'.s))
                 /\ c.acceleration = Vector2D_zero]_vars

C7_Witness ==
    /\ last.op = "applyForce"
    /\ LET b == last.before.bodies[last.i]
       IN  /\ BodyFinite(b)
           /\ b.acceleration # Vector2D_zero
           /\ b.mass # Int2F(1)
           /\ Now.bodies[last.i].acceleration
                 = VAdd(VDiv(last.v, b.mass), VDiv(last.v, b.mass))

Sign(a) == IF a[1] > 0 THEN 1 ELSE IF a[1] < 0 THEN -1 ELSE 0

\* The quotient a / b of two finite numbers, b # 0, in lowest terms and
\* without the range of the floats.
Quot(a, b) ==
    LET n == a[1] * b[2]
        d == a[2] * b[1]
        g == GCD(Abs(n), Abs(d))
    IN  <<(Sign(b) * n) \div g, (Sign(b) * d) \div g>>

\* f is a positive multiple of d.
PointsAlong(f, d) ==
    /\ Sign(f[1]) = Sign(d[1])
    /\ Sign(f[2]) = Sign(d[2])
    /\ f # Vector2D_zero
    /\ (d[1] # Zero /\ d[2] # Zero) => Quot(f[1], d[1]) = Quot(f[2], d[2])

\* A pair of the force law whose bodies have finite state before and after
\* the pair step, positive mass and a separation whose magnitude is not zero.
ProperPair(e) ==
    /\ BodyFinite(e.body1) /\ BodyFinite(e.body2)
    /\ BodyFinite(e.after1) /\ BodyFinite(e.after2)
    /\ FLess(Zero, e.body1.mass) /\ FLess(Zero, e.body2.mass)
    /\ FLess(Zero, magnitude(VSub(e.body2.position, e.body1.position)))

\* C8: for every pair (i, j) of the force law with non-zero separation
\* (and an attracting strength), the force applied to j is the exact
\* negation of the force applied to i, the force on i points from i
\* towards j, and mass_i * (acceleration added to i) + mass_j *
\* (acceleration added to j) is the zero vector.
C8_ThirdLaw ==
    (ForceLawRan /\ (last.op = "predict" \/ FLess(Zero, last.s))) =>
        \A k \in 1..Len(last.log) :
            LET e == last.log[k]
                d == VSub(e.body2.position, e.body1.position)
                add1 == VSub(e.after1.acceleration, e.body1.acceleration)
                add2 == VSub(e.after2.acceleration, e.body2.acceleration)
            IN  ProperPair(e) =>
                  /\ e.force2 = VNeg(e.force1)
                  /\ PointsAlong(e.force1, d)
                  /\ VAdd(VMul(add1, e.body1.mass), VMul(add2, e.body2.mass))
                        = Vector2D_zero

C8_Witness ==
    /\ last.op = "applyGravitationalForces"
    /\ Len(last.log) = 3
    /\ \A k \in 1..3 :
         /\ ProperPair(last.log[k])
         /\ last.log[k].force1 # Vector2D_zero
    /\ \E k \in 1..3 : last.log[k].body1.mass # last.log[k].body2.mass
    /\ \E k \in 1..3 : last.log[k].force1[1] # Zero /\ last.log[k].force1[2] # Zero

\* C9: one application of the force law to n bodies runs the pair step on
\* every unordered pair of distinct bodies exactly once (n * (n - 1) / 2
\* steps, none on a body with itself), so every body gets n - 1
\* contributions and with n <= 1 nothing is applied; it changes accumulated
\* accelerations only: positions, velocities, masses, the number of bodies
\* and the tick stay.
C9_PairsOnce ==
    last.op = "applyGravitationalForces" =>
        LET n == Len(last.before.bodies)
            idx == 0..(n - 1)
            log == last.log
            steps == 1..Len(log)
        IN  /\ Len(log) = (n * (n - 1)) \div 2
            /\ \A k \in steps :
                 log[k].i \in idx /\ log[k].j \in idx /\ log[k].i # log[k].j
            /\ \A a \in idx : \A b \in idx :
                 a < b => Cardinality({k \in steps :
                                         {log[k].i, log[k].j} = {a, b}}) = 1
            /\ \A a \in idx :
                 Cardinality({k \in steps : a \in {log[k].i, log[k].j}})
                     = n - 1
            /\ n <= 1 => Now = last.before
            /\ Now.ticks = last.before.ticks
            /\ Len(Now.bodies) = n
            /\ \A k \in 1..n :
                 Now.bodies[k] =
                    [last.before.bodies[k] EXCEPT
                        !.acceleration = Now.bodies[k].acceleration]

C9_Witness ==
    /\ last.op = "applyGravitationalForces"
    /\ Len(last.before.bodies) = 3
    /\ \A k \in 1..3 :
         /\ BodyFinite(Now.bodies[k])
         /\ Now.bodies[k].acceleration # last.before.bodies[k].acceleration

\* C10: removeBody of a body that is in the world takes it out: the number
\* of bodies drops by one and the other bodies keep their order.
C10_RemoveBodyRemoves ==
    last.op = "removeBody" =>
        /\ Len(Now.bodies) = Len(last.before.bodies) - 1
        /\ \A k \in 1..Len(Now.bodies) :
             Now.bodies[k] =
                last.before.bodies[IF k < last.i THEN k ELSE k + 1]

\* C11: removeBody of a body that is not in the world is a no-op: the tick
\* and the bodies (their number, their order, every body's state) are as
\* before the call, and a second removal of it changes nothing either.
C11_RemoveAbsentNoOp ==
    /\ [](last.op = "removeAbsent" => Now = last.before)
    /\ [][(/\ last.op = "removeAbsent"
           /\ last'.op = "removeAbsent"
           /\ last'.w = last.w)
          => Now' = last.before]_vars

C11_Witness ==
    /\ last.op = "removeAbsent"
    /\ Now.ticks > 0
    /\ Len(Now.bodies) = 2
    /\ Now.bodies[1] # Now.bodies[2]

\* C12: every body held by a world has mass > 0, and applyForce never
\* divides by a mass <= 0.
C12_MassPositive ==
    /\ \A W \in Worlds : Exists(W) =>
          \A k \in 1..Len(Get(W).bodies) : FLess(Zero, Elem(W, k).mass)
    /\ last.op = "applyForce" =>
          FLess(Zero, last.before.bodies[last.i].mass)

\* C13: when the force law runs on two bodies at the same position (both
\* with finite state and positive mass), the accelerations accumulated into
\* both bodies stay finite.
C13_CoincidentFinite ==
    ForceLawRan =>
        \A k \in 1..Len(last.log) :
            LET e == last.log[k]
            IN  (/\ BodyFinite(e.body1) /\ BodyFinite(e.body2)
                 /\ FLess(Zero, e.body1.mass) /\ FLess(Zero, e.body2.mass)
                 /\ e.body1.position = e.body2.position)
                => BodyFinite(e.after1) /\ BodyFinite(e.after2)

\* C14: in every iteration of the predictor in which the speed of the
\* target body (bodies[1] of the clone) is zero, the clone is stepped with
\* a finite dt.
C14_PredictorDtGuarded ==
    (last.op = "predict" /\ last.before.bodies[2].velocity = Vector2D_zero)
        => IsFinite(last.s)

\* C15: clone() returns a world with the tick of the source and, index by
\* index, a body with the position, velocity and mass of the source's body;
\* the source is as it was before the call.
C15_CloneCopies ==
    last.op = "clone" =>
        /\ Copy.ticks = Live.ticks
        /\ Len(Copy.bodies) = Len(Live.bodies)
        /\ \A k \in 1..Len(Live.bodies) :
             /\ Copy.bodies[k].position = Live.bodies[k].position
             /\ Copy.bodies[k].velocity = Live.bodies[k].velocity
             /\ Copy.bodies[k].mass = Live.bodies[k].mass
        /\ Live = last.before

C15_Witness ==
    /\ last.op = "clone"
    /\ Live.ticks > 0
    /\ Len(Live.bodies) = 2
    /\ Live.bodies[1] # Live.bodies[2]
    /\ \A k \in 1..2 :
         /\ BodyFinite(Live.bodies[k])
         /\ Live.bodies[k].position # Live.bodies[k].velocity
         /\ Live.bodies[k].mass # Int2F(1)

\* C16: a predictor run records one point per iteration, in iteration
\* order, each the position of the target body in the clone after that
\* iteration; the points of the previous run are discarded first; when the
\* loop is left the polyline has exactly Horizon points and the clone's tick
\* is the live tick plus Horizon.
C16_Trajectory ==
    /\ [](pc = "predict" =>
            /\ Len(points) = iter
            /\ world_copy.ticks = world.ticks + iter)
    /\ [](last.op = "predict" =>
            points[Len(points)] = Copy.bodies[2].position)
    /\ [](last.op = "render" => Len(points) = Horizon)
    /\ [][last'.op = "predict" =>
            /\ Len(points') = Len(points) + 1
            /\ SubSeq(points', 1, Len(points)) = points]_vars
    /\ [][last'.op = "clone" => points' = <<>>]_vars

C16_Witness ==
    /\ last.op = "render"
    /\ world.ticks = 2
    /\ Len(points) = Horizon
    /\ \A k \in 1..Len(points) : VFinite(points[k])
    /\ points[1] # points[Horizon]

\* The bodies of the world value ws after one application of the force law
\* of main.
AfterForces(ws) ==
    applyGravitationalForces(
        Strength, ws.bodies,
        [ticks |-> ws.ticks, bodies |-> [k \in 1..Len(ws.bodies) |-> k]]).h

\* C17: after the first tick of main with time step dt, every body's
\* velocity is its initial velocity plus dt times the gravitational
\* acceleration at the initial positions, and its position is its initial
\* position plus dt times that new velocity.
C17_FirstTickIncludesGravity ==
    [][(/\ last.op = "update"
        /\ world.ticks = 1
        /\ last'.op = "applyGravitationalForces")
       => \A k \in 1..Len(last.before.bodies) :
            LET b == last.before.bodies[k]
                a == AfterForces(last.before)[k].acceleration
                c == Live'.bodies[k]
            IN  /\ c.velocity = VAdd(b.velocity, VMul(a, last.s))
                /\ c.position = VAdd(b.position, VMul(c.velocity, last.s))]_vars

\* C19: after any sequence of Drawable constructions and destructions,
\* render() draws the drawables in the order of non-decreasing depth.
C19_RenderSortedByDepth ==
    (gop.op = "render" /\ ~gop.direct) =>
        \A i \in 1..Len(drawn) : \A j \in 1..Len(drawn) :
            i < j => depth[drawn[i]] <= depth[drawn[j]]

\* C20: the registry holds exactly once every drawable that was passed to
\* addDrawable and not since to removeDrawable, and no other; render()
\* draws each of them once.
C20_RegistryIsPool ==
    /\ \A d \in pool :
          Cardinality({i \in 1..Len(drawables) : drawables[i] = d}) = 1
    /\ Range(drawables) \subseteq pool
    /\ gop.op = "render" =>
          /\ Range(drawn) = pool
          /\ Len(drawn) = Cardinality(pool)

\* The number of frames on the chain from frame f to its root.
RECURSIVE ChainLength(_, _)
ChainLength(fs, f) ==
    IF fs[f].parent = 0 THEN 1 ELSE 1 + ChainLength(fs, fs[f].parent)

\* C18: for every frame of every tree of frames (each frame with its own
\* position, rotation and non-zero scale) and every point P, converting P
\* to global coordinates and the result back to the frame's coordinates
\* gives P, whenever the numbers stay within the range of the floats.
C18_FrameRoundTrip ==
    (probe.frame # 0 /\ VFinite(probe.local)) => probe.local = probe.point

C18_Witness ==
    /\ probe.frame # 0
    /\ ChainLength(frames, probe.frame) = 3
    /\ VFinite(probe.local)
    /\ probe.global # probe.point
    /\ frames[probe.frame].rotation = <<<<3, 5>>, <<4, 5>>>>
    /\ frames[frames[probe.frame].parent].rotation = <<Zero, Int2F(1)>>
    /\ frames[probe.frame].position # frames[frames[probe.frame].parent].position

\* C21: clone() does not carry the accumulated acceleration over: every
\* body of the clone starts with zero accumulated acceleration, whatever is
\* pending on the live body, so an update of the clone that directly
\* follows clone() keeps every velocity and moves every position by
\* velocity * dt.
C21_CloneDropsAcceleration ==
    /\ [](last.op = "clone" =>
            \A k \in 1..Len(Copy.bodies) :
                Copy.bodies[k].acceleration = Vector2D_zero)
    /\ [][(/\ last.op = "clone"
           /\ last'.op = "update"
           /\ last'.w = "world_copy")
          => \A k \in 1..Len(Copy.bodies) :
               /\ Copy'.bodies[k].velocity = Live.bodies[k].velocity
               /\ Copy'.bodies[k].position =
                     VAdd(Live.bodies[k].position,
                          VMul(Live.bodies[k].velocity, last'.s))]_vars

C21_Witness ==
    /\ last.op = "update"
    /\ last.w = "world_copy"
    /\ updates.world_copy = 1
    /\ Len(Live.bodies) > 0
    /\ Len(Copy.bodies) = Len(Live.bodies)
    /\ \A k \in 1..Len(Live.bodies) :
         /\ BodyFinite(Live.bodies[k])
         /\ Live.bodies[k].acceleration # Vector2D_zero
         /\ Copy.bodies[k].velocity = Live.bodies[k].velocity
         /\ Copy.bodies[k].position # Live.bodies[k].position

\* C22: the predictor's first step is the live world's next tick: when the
\* tick of main that follows a predictor run is made with the dt the
\* predictor used for its first step (the live world is the one that was
\* cloned, so that dt is SamplingDistance / speed of the live target body),
\* the live target body is then at the first predicted position.  In main
\* a new predictor run starts after every tick, so the first step is the
\* one that can be compared.
C22_PredictorFaithful ==
    (/\ last.op = "update"
     /\ last.w = "world"
     /\ world.ticks >= 2
     /\ Len(points) >= 1
     /\ last.s = PredictorDt(last.before.bodies,
                             [bodies |-> <<1, 2>>]))
    => Live.bodies[2].position = points[1]

\* The sum over the bodies k..n of the world value ws of mass * field,
\* field being "velocity" or "acceleration".
RECURSIVE MassSum(_, _, _)
MassSum(ws, k, field) ==
    IF k > Len(ws.bodies) THEN Vector2D_zero
    ELSE VAdd(VMul(ws.bodies[k][field], ws.bodies[k].mass),
              MassSum(ws, k + 1, field))

Momentum(ws) == MassSum(ws, 1, "velocity")

\* Two bodies of ws at different positions whose rounded distance is zero:
\* the square root of the model is coarser than the float's, and such a
\* pair is left out of the statement.
Underflow(ws) ==
    \E i, j \in 1..Len(ws.bodies) :
        /\ ws.bodies[i].position # ws.bodies[j].position
        /\ magnitude(VSub(ws.bodies[j].position, ws.bodies[i].position)) = Zero

\* C23: in main's loop (the bodies start at pairwise distinct positions
\* with positive masses and zero accumulated acceleration, and every
\* operation on the live world is the update or the force law of a tick)
\* the sum over the live bodies of mass * accumulated acceleration is the
\* zero vector after every application of the force law, and no step
\* changes the sum over the live bodies of mass * velocity.
C23_MomentumConserved ==
    /\ []((last.op = "applyGravitationalForces" /\ last.w = "world"
             /\ ~Underflow(last.before))
            => MassSum(Live, 1, "acceleration") = Vector2D_zero)
    /\ [][~Underflow(Live) => Momentum(Live') = Momentum(Live)]_vars

====
